---- MODULE Spec2Model ----
(***************************************************************************)
(* Model of chux-yanzi-core: the intent record (package model), the        *)
(* deterministic hashing of a record (package hash) and the SQLite store   *)
(* of records (package store).                                             *)
(*                                                                         *)
(* Strings are sequences of one-character strings, so that byte order,     *)
(* newline rewriting and JSON escaping are computed, not assumed.          *)
(* SHA-256 is modelled as an injective function of the preimage.           *)
(***************************************************************************)
EXTENDS Integers, Sequences, FiniteSets, TLC

VARIABLES record, variant, result, resultVariant, op,
          intents, created, ret, call,
          migrations, db, mig,
          items, filters, out

vars == <<record, variant, result, resultVariant, op, intents, created, ret, call,
          migrations, db, mig, items, filters, out>>

hashVars == <<record, variant, result, resultVariant, op>>
storeVars == <<intents, created, ret, call>>
migVars == <<migrations, db, mig>>
filterVars == <<items, filters, out>>

(***************************************************************************)
(* Bounds of the model.                                                    *)
(***************************************************************************)
\* longest free-text field value drawn as an input
MaxLen == 3
\* largest number of CreateIntent calls in one behaviour of the store
MaxCreates == 2

(***************************************************************************)
(* Bytes and strings.                                                      *)
(***************************************************************************)
CR == "\r"
LF == "\n"

\* the byte value of a character (ASCII), as Go and SQLite compare strings
Ord(c) ==
    CASE c = LF -> 10
      [] c = CR -> 13
      [] c = "\"" -> 34
      [] c = "+" -> 43
      [] c = "," -> 44
      [] c = "-" -> 45
      [] c = "." -> 46
      [] c = "0" -> 48
      [] c = "1" -> 49
      [] c = "2" -> 50
      [] c = "3" -> 51
      [] c = "4" -> 52
      [] c = "5" -> 53
      [] c = "6" -> 54
      [] c = "7" -> 55
      [] c = "8" -> 56
      [] c = "9" -> 57
      [] c = ":" -> 58
      [] c = "T" -> 84
      [] c = "Z" -> 90
      [] c = "\\" -> 92
      [] c = "a" -> 97
      [] c = "b" -> 98
      [] c = "c" -> 99
      [] c = "e" -> 101
      [] c = "h" -> 104
      [] c = "l" -> 108
      [] c = "n" -> 110
      [] c = "p" -> 112
      [] c = "q" -> 113
      [] c = "r" -> 114
      [] c = "s" -> 115
      [] c = "t" -> 116
      [] c = "v" -> 118
      [] c = "x" -> 120
      [] c = "y" -> 121

\* bytewise lexicographic order on strings: s < t
RECURSIVE StringLess(_, _)
StringLess(s, t) ==
    IF t = <<>> THEN FALSE
    ELSE IF s = <<>> THEN TRUE
    ELSE IF Ord(Head(s)) # Ord(Head(t)) THEN Ord(Head(s)) < Ord(Head(t))
    ELSE StringLess(Tail(s), Tail(t))

\* the orders in which n things can be arranged
IndexPermutations(n) == {p \in [1..n -> 1..n] : \A i, j \in 1..n : p[i] = p[j] => i = j}

RECURSIVE Flatten(_)
Flatten(ss) == IF ss = <<>> THEN <<>> ELSE Head(ss) \o Flatten(Tail(ss))

(***************************************************************************)
(* package model: IntentRecord.Normalize                                   *)
(***************************************************************************)
\* strings.ReplaceAll(value, "\r\n", "\n"): leftmost non-overlapping matches
RECURSIVE ReplaceCRLF(_)
ReplaceCRLF(s) ==
    IF Len(s) < 2 THEN s
    ELSE IF s[1] = CR /\ s[2] = LF THEN <<LF>> \o ReplaceCRLF(SubSeq(s, 3, Len(s)))
    ELSE <<s[1]>> \o ReplaceCRLF(Tail(s))

\* strings.ReplaceAll(value, "\r", "\n")
ReplaceCR(s) == [i \in 1..Len(s) |-> IF s[i] = CR THEN LF ELSE s[i]]

normalizeNewlinesCRLFOnly(value) ==
    IF value = <<>> THEN value ELSE ReplaceCRLF(value)

normalizeNewlines(value) ==
    IF value = <<>> THEN value ELSE ReplaceCR(ReplaceCRLF(value))

Normalize(r) ==
    [r EXCEPT !.Author = normalizeNewlines(r.Author),
              !.SourceType = normalizeNewlines(r.SourceType),
              !.Title = normalizeNewlines(r.Title),
              !.Prompt = normalizeNewlines(r.Prompt),
              !.Response = normalizeNewlines(r.Response),
              !.PrevHash = normalizeNewlines(r.PrevHash)]

(***************************************************************************)
(* JSON text: json.Marshal of a string.                                    *)
(***************************************************************************)
EscapeChar(c) ==
    CASE c = LF -> <<"\\", "n">>
      [] c = CR -> <<"\\", "r">>
      [] c = "\"" -> <<"\\", "\"">>
      [] c = "\\" -> <<"\\", "\\">>
      [] OTHER -> <<c>>

MarshalString(s) ==
    <<"\"">> \o Flatten([i \in 1..Len(s) |-> EscapeChar(s[i])]) \o <<"\"">>

(***************************************************************************)
(* Metadata.  A raw metadata payload (json.RawMessage) is its JSON syntax: *)
(* kind "empty" is the zero-length payload, "json" one well-formed value,  *)
(* "trailing" a well-formed value followed by more data, "malformed" a     *)
(* text the decoder rejects.  A syntax node keeps the members of an object *)
(* in the order they are written and a number as the literal written.      *)
(***************************************************************************)
Node(t, lit, keys, kids) == [t |-> t, lit |-> lit, keys |-> keys, kids |-> kids]
JNull == Node("null", <<>>, <<>>, <<>>)
JTrue == Node("true", <<>>, <<>>, <<>>)
JFalse == Node("false", <<>>, <<>>, <<>>)
JStr(s) == Node("str", s, <<>>, <<>>)
JNum(lit) == Node("num", lit, <<>>, <<>>)
JArr(kids) == Node("arr", <<>>, <<>>, kids)
JObj(keys, kids) == Node("obj", <<>>, keys, kids)

RawMeta(kind, root) == [kind |-> kind, root |-> root]
NoMeta == RawMeta("empty", JNull)

Range(s) == {s[i] : i \in 1..Len(s)}

\* the member that wins for a key written more than once: the last one
LastIndex(keys, k) ==
    CHOOSE i \in 1..Len(keys) :
        keys[i] = k /\ \A j \in (i + 1)..Len(keys) : keys[j] # k

\* the Go value the decoder builds (UseNumber: a number stays its literal);
\* an object becomes a map, which has no order and one value per key
RECURSIVE Decode(_)
Decode(n) ==
    CASE n.t = "obj" ->
           [t |-> "obj", lit |-> <<>>, kids |-> <<>>,
            m |-> [k \in Range(n.keys) |-> Decode(n.kids[LastIndex(n.keys, k)])]]
      [] n.t = "arr" ->
           [t |-> "arr", lit |-> <<>>, m |-> <<>>,
            kids |-> [i \in 1..Len(n.kids) |-> Decode(n.kids[i])]]
      [] OTHER -> [t |-> n.t, lit |-> n.lit, m |-> <<>>, kids |-> <<>>]

decodeJSON(raw) ==
    CASE raw.kind = "json" -> [err |-> "", v |-> Decode(raw.root)]
      [] raw.kind = "trailing" ->
           [err |-> "unexpected trailing JSON data", v |-> Decode(JNull)]
      [] OTHER -> [err |-> "invalid JSON", v |-> Decode(JNull)]

\* sort.Strings
RECURSIVE SortStrings(_)
SortStrings(S) ==
    IF S = {} THEN <<>>
    ELSE LET k == CHOOSE x \in S : \A y \in S \ {x} : StringLess(x, y)
         IN <<k>> \o SortStrings(S \ {k})

RECURSIVE writeJSONObject(_)
RECURSIVE writeJSONValue(_)

writeJSONObject(obj) ==
    LET keys == SortStrings(DOMAIN obj)
    IN <<"{">>
       \o Flatten([i \in 1..Len(keys) |->
              (IF i > 1 THEN <<",">> ELSE <<>>)
              \o MarshalString(keys[i]) \o <<":">> \o writeJSONValue(obj[keys[i]])])
       \o <<"}">>

\* the float64 case of the switch cannot arise: decodeJSON uses UseNumber
writeJSONValue(v) ==
    CASE v.t = "null" -> <<"null">>
      [] v.t = "true" -> <<"true">>
      [] v.t = "false" -> <<"false">>
      [] v.t = "str" -> MarshalString(v.lit)
      [] v.t = "num" -> v.lit
      [] v.t = "arr" ->
           <<"[">>
           \o Flatten([i \in 1..Len(v.kids) |->
                  (IF i > 1 THEN <<",">> ELSE <<>>) \o writeJSONValue(v.kids[i])])
           \o <<"]">>
      [] v.t = "obj" -> writeJSONObject(v.m)

\* the payload re-emitted member by member in the order written
RECURSIVE WriteAsWritten(_)
WriteAsWritten(n) ==
    CASE n.t = "obj" ->
           <<"{">>
           \o Flatten([i \in 1..Len(n.keys) |->
                  (IF i > 1 THEN <<",">> ELSE <<>>)
                  \o MarshalString(n.keys[i]) \o <<":">> \o WriteAsWritten(n.kids[i])])
           \o <<"}">>
      [] n.t = "arr" ->
           <<"[">>
           \o Flatten([i \in 1..Len(n.kids) |->
                  (IF i > 1 THEN <<",">> ELSE <<>>) \o WriteAsWritten(n.kids[i])])
           \o <<"]">>
      [] OTHER -> writeJSONValue(Decode(n))

CanonicalizeMetaAsWritten(raw) ==
    IF raw.kind = "empty" THEN [err |-> "", out |-> <<>>]
    ELSE LET d == decodeJSON(raw)
         IN IF d.err # "" THEN [err |-> d.err, out |-> <<>>]
            ELSE IF d.v.t # "obj"
                 THEN [err |-> "meta must be a JSON object", out |-> <<>>]
            ELSE [err |-> "", out |-> WriteAsWritten(raw.root)]

CanonicalizeMeta(raw) ==
    IF raw.kind = "empty" THEN [err |-> "", out |-> <<>>]
    ELSE LET d == decodeJSON(raw)
         IN IF d.err # "" THEN [err |-> d.err, out |-> <<>>]
            ELSE IF d.v.t # "obj"
                 THEN [err |-> "meta must be a JSON object", out |-> <<>>]
            ELSE [err |-> "", out |-> writeJSONObject(d.v.m)]

(***************************************************************************)
(* Timestamps.  A createdAt string is the empty string, a text that is not *)
(* RFC 3339, or an RFC 3339 timestamp of February 2026 given by its day,   *)
(* hour, second, fractional digits and zone (Z or a signed hour offset).   *)
(***************************************************************************)
\* digits of the fractional second kept by time.Time (nanoseconds)
NanoDigits == 9
SecondsPerDay == 86400
SecondsPerHour == 3600

DigitChars == <<"0", "1", "2", "3", "4", "5", "6", "7", "8", "9">>
Digit(d) == DigitChars[d + 1]
TwoDigits(n) == <<Digit(n \div 10), Digit(n % 10)>>
Abs(n) == IF n < 0 THEN 0 - n ELSE n

Timestamp(day, hour, sec, frac, z, off) ==
    [kind |-> "ts", day |-> day, hour |-> hour, sec |-> sec, frac |-> frac,
     z |-> z, off |-> off]
EmptyTime == [kind |-> "empty", day |-> 0, hour |-> 0, sec |-> 0, frac |-> <<>>,
              z |-> TRUE, off |-> 0]
BadTime == [EmptyTime EXCEPT !.kind = "bad"]

RFC3339Text(day, hour, min, sec, frac, zone) ==
    <<"2", "0", "2", "6", "-", "0", "2", "-">> \o TwoDigits(day) \o <<"T">>
    \o TwoDigits(hour) \o <<":">> \o TwoDigits(min) \o <<":">> \o TwoDigits(sec)
    \o (IF frac = <<>> THEN <<>>
        ELSE <<".">> \o [i \in 1..Len(frac) |-> Digit(frac[i])])
    \o zone

\* the characters of a createdAt string
TimeText(c) ==
    CASE c.kind = "empty" -> <<>>
      [] c.kind = "bad" -> <<"n", "a", "n">>
      [] OTHER ->
           RFC3339Text(c.day, c.hour, 0, c.sec, c.frac,
               IF c.z THEN <<"Z">>
               ELSE <<IF c.off < 0 THEN "-" ELSE "+">> \o TwoDigits(Abs(c.off))
                    \o <<":", "0", "0">>)

\* time.Parse(time.RFC3339Nano, value): the instant as seconds and nanoseconds
ParseRFC3339(c) ==
    IF c.kind # "ts" THEN [ok |-> FALSE, sec |-> 0, nsec |-> <<>>]
    ELSE [ok |-> TRUE,
          sec |-> c.day * SecondsPerDay + c.hour * SecondsPerHour + c.sec
                  - c.off * SecondsPerHour,
          nsec |-> [i \in 1..NanoDigits |-> IF i <= Len(c.frac) THEN c.frac[i] ELSE 0]]

RECURSIVE TrimZeros(_)
TrimZeros(ds) ==
    IF ds = <<>> \/ ds[Len(ds)] # 0 THEN ds
    ELSE TrimZeros(SubSeq(ds, 1, Len(ds) - 1))

\* parsed.UTC().Format(time.RFC3339Nano)
FormatUTC(t) ==
    RFC3339Text(t.sec \div SecondsPerDay, (t.sec % SecondsPerDay) \div SecondsPerHour,
                (t.sec % SecondsPerHour) \div 60, t.sec % 60,
                TrimZeros(t.nsec), <<"Z">>)

\* Format without the conversion to UTC: the wall clock as written, marked Z
FormatLocal(c) ==
    RFC3339Text(c.day, c.hour, 0, c.sec, TrimZeros(ParseRFC3339(c).nsec), <<"Z">>)

normalizeRFC3339NoUTC(value) ==
    IF ~ParseRFC3339(value).ok THEN [err |-> "parse", out |-> <<>>]
    ELSE [err |-> "", out |-> FormatLocal(value)]

normalizeRFC3339(value) ==
    LET parsed == ParseRFC3339(value)
    IN IF ~parsed.ok THEN [err |-> "parse", out |-> <<>>]
       ELSE [err |-> "", out |-> FormatUTC(parsed)]

(***************************************************************************)
(* package hash: the preimage and the digest                               *)
(***************************************************************************)
IntentRecord(id, createdAt, author, sourceType, title, prompt, response, meta, prevHash, hash) ==
    [ID |-> id, CreatedAt |-> createdAt, Author |-> author,
     SourceType |-> sourceType, Title |-> title, Prompt |-> prompt,
     Response |-> response, Meta |-> meta, PrevHash |-> prevHash, Hash |-> hash]

addStringField(name, value) == <<"\"", name, "\"", ":">> \o MarshalString(value)
addRawField(name, raw) == <<"\"", name, "\"", ":">> \o raw

\* the fields written between the braces, each after the first behind a comma
RECURSIVE JoinFields(_)
JoinFields(fs) ==
    IF fs = <<>> THEN <<>>
    ELSE IF Len(fs) = 1 THEN fs[1]
    ELSE fs[1] \o <<",">> \o JoinFields(Tail(fs))

\* the preimage with the record's own hash field written into it as well
PreimageFieldsWithHash(r, createdAt, meta) ==
    <<addStringField("id", r.ID),
      addStringField("created_at", createdAt),
      addStringField("author", r.Author),
      addStringField("source_type", r.SourceType)>>
    \o (IF r.Title # <<>> THEN <<addStringField("title", r.Title)>> ELSE <<>>)
    \o <<addStringField("prompt", r.Prompt),
         addStringField("response", r.Response)>>
    \o (IF Len(meta) > 0 THEN <<addRawField("meta", meta)>> ELSE <<>>)
    \o (IF r.PrevHash # <<>> THEN <<addStringField("prev_hash", r.PrevHash)>> ELSE <<>>)
    \o <<addStringField("hash", r.Hash)>>

PreimageFields(r, createdAt, meta) ==
    <<addStringField("id", r.ID),
      addStringField("created_at", createdAt),
      addStringField("author", r.Author),
      addStringField("source_type", r.SourceType)>>
    \o (IF r.Title # <<>> THEN <<addStringField("title", r.Title)>> ELSE <<>>)
    \o <<addStringField("prompt", r.Prompt),
         addStringField("response", r.Response)>>
    \o (IF Len(meta) > 0 THEN <<addRawField("meta", meta)>> ELSE <<>>)
    \o (IF r.PrevHash # <<>> THEN <<addStringField("prev_hash", r.PrevHash)>> ELSE <<>>)

Failed(msg) == [err |-> msg, bytes |-> <<>>]

canonicalIntentPreimage(r) ==
    IF Len(r.ID) = 0 THEN Failed("id is required for hashing")
    ELSE IF Len(TimeText(r.CreatedAt)) = 0
         THEN Failed("created_at is required for hashing")
    ELSE IF normalizeRFC3339(r.CreatedAt).err # ""
         THEN Failed("created_at must be RFC3339")
    ELSE IF Len(r.Author) = 0 THEN Failed("author is required for hashing")
    ELSE IF Len(r.SourceType) = 0 THEN Failed("source_type is required for hashing")
    ELSE IF Len(r.Prompt) = 0 THEN Failed("prompt is required for hashing")
    ELSE IF Len(r.Response) = 0 THEN Failed("response is required for hashing")
    ELSE LET canonicalMeta == IF r.Meta.kind # "empty" THEN CanonicalizeMeta(r.Meta)
                              ELSE [err |-> "", out |-> <<>>]
         IN IF canonicalMeta.err # "" THEN Failed(canonicalMeta.err)
            ELSE [err |-> "",
                  bytes |-> <<"{">>
                            \o JoinFields(PreimageFields(r,
                                   normalizeRFC3339(r.CreatedAt).out, canonicalMeta.out))
                            \o <<"}">>]

\* hex.EncodeToString(sha256.Sum256(preimage)): injective in the preimage
Sha256Hex(preimage) == <<"sha256">> \o preimage

HashIntent(r) ==
    LET normalized == Normalize(r)
        preimage == canonicalIntentPreimage(normalized)
    IN IF preimage.err # "" THEN [digest |-> <<>>, err |-> preimage.err]
       ELSE [digest |-> Sha256Hex(preimage.bytes), err |-> ""]

(***************************************************************************)
(* package store: the intents table and the operations on it.              *)
(* The table is the sequence of its rows in insertion order.  Its schema   *)
(* makes id the primary key and every column but title, meta and prev_hash *)
(* NOT NULL; the index on hash is not unique.                              *)
(***************************************************************************)
\* sql.NullString
NullString(valid, s) == [Valid |-> valid, String |-> s]

\* the column values CreateIntent binds to the INSERT
Row(r) ==
    [id |-> r.ID, created_at |-> r.CreatedAt, author |-> r.Author,
     source_type |-> r.SourceType,
     title |-> IF r.Title # <<>> THEN NullString(TRUE, r.Title)
               ELSE NullString(FALSE, <<>>),
     prompt |-> r.Prompt, response |-> r.Response,
     meta |-> IF r.Meta.kind # "empty" THEN NullString(TRUE, r.Meta)
              ELSE NullString(FALSE, NoMeta),
     prev_hash |-> IF r.PrevHash # <<>> THEN NullString(TRUE, r.PrevHash)
                   ELSE NullString(FALSE, <<>>),
     hash |-> r.Hash]

\* the record the Scan of a row and the three Valid tests build
Scan(row) ==
    IntentRecord(row.id, row.created_at, row.author, row.source_type,
                 IF row.title.Valid THEN row.title.String ELSE <<>>,
                 row.prompt, row.response,
                 IF row.meta.Valid /\ row.meta.String.kind # "empty"
                 THEN row.meta.String ELSE NoMeta,
                 IF row.prev_hash.Valid THEN row.prev_hash.String ELSE <<>>,
                 row.hash)

ErrDuplicateID == "UNIQUE constraint failed: intents.id"
ErrNoRows == "sql: no rows in result set"
DefaultLimit == 100

Returned(err, recs) == [err |-> err, recs |-> recs]
NoRet == Returned("none", <<>>)
Called(name, key, limit) == [op |-> name, key |-> key, limit |-> limit]
NoCall == Called("none", <<>>, 0)

\* INSERT OR REPLACE: a row of the same id is replaced, not refused
InsertOrReplace(rows, r) ==
    [err |-> "",
     rows |-> IF \E i \in 1..Len(rows) : rows[i].id = r.ID
              THEN [i \in 1..Len(rows) |-> IF rows[i].id = r.ID THEN Row(r) ELSE rows[i]]
              ELSE Append(rows, Row(r))]

\* INSERT into a table without the primary key
InsertNoKey(rows, r) == [err |-> "", rows |-> Append(rows, Row(r))]

\* the INSERT of CreateIntent: refused when the id is a stored row's
Insert(rows, r) ==
    IF \E i \in 1..Len(rows) : rows[i].id = r.ID
    THEN [err |-> ErrDuplicateID, rows |-> rows]
    ELSE [err |-> "", rows |-> Append(rows, Row(r))]

\* SELECT ... WHERE id = ?: the rows QueryRow may take its one row from
SelectByID(rows, id) == {i \in 1..Len(rows) : rows[i].id = id}

\* SELECT ... WHERE hash = ?
SelectByHash(rows, hash) == {i \in 1..Len(rows) : rows[i].hash = hash}

Min(a, b) == IF a < b THEN a ELSE b

\* ORDER BY created_at DESC: the orders of the rows in which no row's
\* created_at text is bytewise less than that of a row after it
SelectOrdered(rows) ==
    {p \in IndexPermutations(Len(rows)) :
        \A i, j \in 1..Len(rows) :
            i < j => ~StringLess(TimeText(rows[p[i]].created_at),
                                 TimeText(rows[p[j]].created_at))}

\* the limit ListIntents binds to LIMIT ?
EffectiveLimit(limit) == IF limit <= 0 THEN DefaultLimit ELSE limit

(***************************************************************************)
(* package store: Migrate.  The migrations directory is the set of its     *)
(* entries, each a file or a directory of some name, and the set of the    *)
(* files whose contents SQLite refuses to execute.  The database is the    *)
(* schema_migrations table (absent until created; its rows, by version, in *)
(* insertion order) and the scripts whose statements have been committed.  *)
(* The applied_at column is the clock's and is left out.                   *)
(***************************************************************************)
Entry(name, isDir) == [name |-> name, isDir |-> isDir]
Directory(exists, entries, failing) ==
    [exists |-> exists, entries |-> entries, failing |-> failing]
Database(table, versions, effects) ==
    [table |-> table, versions |-> versions, effects |-> effects]

SqlSuffix == <<".", "s", "q", "l">>

\* strings.HasSuffix(name, ".sql")
HasSuffix(name, suffix) ==
    /\ Len(name) >= Len(suffix)
    /\ SubSeq(name, Len(name) - Len(suffix) + 1, Len(name)) = suffix

\* the names of the files of the directory that end in .sql; a path is
\* "migrations/" and the name, so paths sort as their names do
listMigrationFiles(dir) ==
    IF ~dir.exists THEN [err |-> "list migrations", paths |-> {}]
    ELSE [err |-> "",
          paths |-> {e.name : e \in {x \in dir.entries :
                                        ~x.isDir /\ HasSuffix(x.name, SqlSuffix)}}]

\* a test that finds no version applied
isMigrationAppliedNever(d, version) == FALSE

\* SELECT COUNT(1) FROM schema_migrations WHERE version = ?
isMigrationApplied(d, version) ==
    \E i \in 1..Len(d.versions) : d.versions[i] = version

\* the script executed and recorded without a transaction around the two:
\* a script that fails keeps the effect of the statements before the failure
applyMigrationNoTx(d, version, fails) ==
    IF fails
    THEN [err |-> "apply migration",
          db |-> [d EXCEPT !.effects = Append(d.effects, version)]]
    ELSE IF version \in Range(d.versions)
    THEN [err |-> "record migration",
          db |-> [d EXCEPT !.effects = Append(d.effects, version)]]
    ELSE [err |-> "",
          db |-> [d EXCEPT !.effects = Append(d.effects, version),
                           !.versions = Append(d.versions, version)]]

\* one script in its transaction: executed, recorded, committed; rolled back
\* when the script fails or the version is a row of the table already
\* (version is the primary key of schema_migrations)
applyMigration(d, version, fails) ==
    IF fails THEN [err |-> "apply migration", db |-> d]
    ELSE IF version \in Range(d.versions) THEN [err |-> "record migration", db |-> d]
    ELSE [err |-> "",
          db |-> [d EXCEPT !.effects = Append(d.effects, version),
                           !.versions = Append(d.versions, version)]]

Migrated(err, failed, ran, d) == [err |-> err, failed |-> failed, ran |-> ran, db |-> d]

\* the loop over the sorted paths; ran lists the scripts it executed
RECURSIVE migrateLoop(_, _, _, _)
migrateLoop(paths, failing, d, ran) ==
    IF paths = <<>> THEN Migrated("", <<>>, ran, d)
    ELSE LET version == Head(paths)
         IN IF isMigrationApplied(d, version)
            THEN migrateLoop(Tail(paths), failing, d, ran)
            ELSE LET done == applyMigration(d, version, version \in failing)
                 IN IF done.err # ""
                    THEN Migrated(done.err, version, Append(ran, version), done.db)
                    ELSE migrateLoop(Tail(paths), failing, done.db, Append(ran, version))

\* Store.Migrate on the database d with the directory dir
Migrate(dir, d) ==
    LET withTable == [d EXCEPT !.table = TRUE]
        listed == listMigrationFiles(dir)
    IN IF listed.err # "" THEN Migrated(listed.err, <<>>, <<>>, withTable)
       ELSE IF listed.paths = {}
            THEN Migrated("no migration files found", <<>>, <<>>, withTable)
       ELSE migrateLoop(SortStrings(listed.paths), dir.failing, withTable, <<>>)

\* the last operation on the migrations: its outcome, the database it found
\* and the script at which the Migrate before it failed
MigrateCall(name, done, before, prevFailed) ==
    [op |-> name, err |-> done.err, failed |-> done.failed, ran |-> done.ran,
     before |-> before, prevFailed |-> prevFailed]

FreshDatabase == Database(FALSE, <<>>, <<>>)
NoDirectory == Directory(FALSE, {}, {})
NoMigrateCall == MigrateCall("none", Migrated("", <<>>, <<>>, FreshDatabase), FreshDatabase, <<>>)

MigrateIdle ==
    /\ migrations = NoDirectory
    /\ db = FreshDatabase
    /\ mig = NoMigrateCall

(***************************************************************************)
(* package store: FilterIntentsByMeta.  A filter set is a function from    *)
(* its keys to the values wanted; the nil and the empty map are the        *)
(* function of no keys.                                                    *)
(***************************************************************************)
\* json.Unmarshal(raw, &payload) for payload map[string]any: a JSON null
\* leaves the map nil without error, any other value that is no object fails
UnmarshalMap(raw) ==
    CASE raw.kind = "json" /\ raw.root.t = "obj" -> [err |-> "", payload |-> Decode(raw.root).m]
      [] raw.kind = "json" /\ raw.root.t = "null" -> [err |-> "", payload |-> <<>>]
      [] OTHER -> [err |-> "decode meta", payload |-> <<>>]

\* the string-valued members of the payload
StringMembers(payload) ==
    [k \in {x \in DOMAIN payload : payload[x].t = "str"} |-> payload[k].lit]

\* a match on any one of the filters instead of on all of them
matchesMetaFiltersAny(raw, fs) ==
    IF DOMAIN fs = {} THEN [err |-> "", match |-> TRUE]
    ELSE IF raw.kind = "empty" THEN [err |-> "", match |-> FALSE]
    ELSE LET decoded == UnmarshalMap(raw)
             meta == StringMembers(decoded.payload)
         IN IF decoded.err # "" THEN [err |-> decoded.err, match |-> FALSE]
            ELSE [err |-> "",
                  match |-> \E key \in DOMAIN fs :
                                key \in DOMAIN meta /\ meta[key] = fs[key]]

matchesMetaFilters(raw, fs) ==
    IF DOMAIN fs = {} THEN [err |-> "", match |-> TRUE]
    ELSE IF raw.kind = "empty" THEN [err |-> "", match |-> FALSE]
    ELSE LET decoded == UnmarshalMap(raw)
             meta == StringMembers(decoded.payload)
         IN IF decoded.err # "" THEN [err |-> decoded.err, match |-> FALSE]
            ELSE [err |-> "",
                  match |-> \A key \in DOMAIN fs :
                                key \in DOMAIN meta /\ meta[key] = fs[key]]

Filtered(err, recs) == [err |-> err, recs |-> recs]

\* the loop over the records with a record that fails to decode passed over
RECURSIVE filterLoopSkipBad(_, _, _)
filterLoopSkipBad(rs, fs, filtered) ==
    IF rs = <<>> THEN Filtered("", filtered)
    ELSE LET m == matchesMetaFilters(Head(rs).Meta, fs)
         IN filterLoopSkipBad(Tail(rs), fs,
                IF m.err = "" /\ m.match THEN Append(filtered, Head(rs)) ELSE filtered)

FilterIntentsByMetaSkipBad(rs, fs) ==
    IF DOMAIN fs = {} THEN Filtered("", rs) ELSE filterLoopSkipBad(rs, fs, <<>>)

\* the loop over the records: the first error ends the call
RECURSIVE filterLoop(_, _, _)
filterLoop(rs, fs, filtered) ==
    IF rs = <<>> THEN Filtered("", filtered)
    ELSE LET m == matchesMetaFilters(Head(rs).Meta, fs)
         IN IF m.err # "" THEN Filtered(m.err, <<>>)
            ELSE filterLoop(Tail(rs), fs,
                     IF m.match THEN Append(filtered, Head(rs)) ELSE filtered)

FilterIntentsByMeta(rs, fs) ==
    IF DOMAIN fs = {} THEN Filtered("", rs) ELSE filterLoop(rs, fs, <<>>)

NoFilters == <<>>
NoFiltered == Filtered("none", <<>>)

FilterIdle ==
    /\ items = <<>>
    /\ filters = NoFilters
    /\ out = NoFiltered

(***************************************************************************)
(* Inputs of the hashing functions.                                        *)
(***************************************************************************)
Chars == {"a", CR, LF}
Texts == UNION {[1..n -> Chars] : n \in 0..MaxLen}
TextFields == {"Author", "SourceType", "Title", "Prompt", "Response", "PrevHash"}
Hashes == {<<>>, <<"h">>}

Zones == {<<TRUE, 0>>, <<FALSE, 0>>, <<FALSE, 1>>, <<FALSE, -1>>}
Times ==
    {Timestamp(day, hour, sec, frac, zone[1], zone[2]) :
        day \in {9, 10}, hour \in {0, 10, 23}, sec \in {0, 30},
        frac \in {<<>>, <<0>>, <<5>>, <<5, 0>>}, zone \in Zones}
GoodTime == Timestamp(9, 10, 0, <<>>, TRUE, 0)

NumLits == {<<"1">>, <<"1", ".", "0">>, <<"1", "e", "0">>, <<"2">>}
MetaKeys == {<<"a">>, <<"b">>}
KeySeqs == UNION {[1..n -> MetaKeys] : n \in 0..Cardinality(MetaKeys)}
DistinctKeySeqs == {ks \in KeySeqs : Cardinality(Range(ks)) = Len(ks)}

ObjectsOver(keySeqs, values) ==
    UNION {{JObj(ks, vs) : vs \in [1..Len(ks) -> values]} : ks \in keySeqs}

Leaves == {JNull, JTrue, JFalse, JStr(<<"v">>)} \cup {JNum(lit) : lit \in NumLits}
InnerLeaves == {JNum(<<"1">>), JNum(<<"1", ".", "0">>)}
InnerObjects ==
    ObjectsOver({ks \in DistinctKeySeqs : Len(ks) # 1}, InnerLeaves)
Arrays ==
    {JArr(<<>>), JArr(<<JNum(<<"1">>), JNum(<<"1", "e", "0">>)>>)}
    \cup {JArr(<<o>>) : o \in ObjectsOver({<<<<"b">>, <<"a">>>>}, InnerLeaves)}
Values == Leaves \cup InnerObjects \cup Arrays
\* objects of distinct keys over every value, and objects that repeat a key
Objects ==
    ObjectsOver(DistinctKeySeqs, Values)
    \cup ObjectsOver(KeySeqs \ DistinctKeySeqs, Leaves)

Metas ==
    {RawMeta("json", o) : o \in Objects}
    \cup {RawMeta("json", JNum(<<"1">>)), RawMeta("json", JArr(<<>>)),
          RawMeta("malformed", JNull), RawMeta("trailing", JObj(<<>>, <<>>)), NoMeta}

GoodRecord ==
    IntentRecord(<<"x">>, GoodTime, <<"a">>, <<"c">>, <<>>, <<"p">>, <<"r">>,
                 NoMeta, <<>>, <<>>)

\* one free-text field, or all of them, holding any text
TextInputs ==
    {[GoodRecord EXCEPT ![f] = t] : f \in TextFields, t \in Texts}
    \cup {[GoodRecord EXCEPT !.Author = t, !.SourceType = t, !.Title = t,
                             !.Prompt = t, !.Response = t, !.PrevHash = t] :
             t \in Texts}

\* every combination of absent and present required fields
RequiredInputs ==
    {IntentRecord(id, createdAt, author, sourceType, <<>>, prompt, response,
                  NoMeta, <<>>, hash) :
        id \in {<<>>, <<"x">>}, createdAt \in {EmptyTime, BadTime, GoodTime},
        author \in {<<>>, <<"a">>}, sourceType \in {<<>>, <<"c">>},
        prompt \in {<<>>, <<"p">>}, response \in {<<>>, <<"r">>},
        hash \in Hashes}

MetaInputs == {[GoodRecord EXCEPT !.Meta = m] : m \in Metas}
TimeInputs == {[GoodRecord EXCEPT !.CreatedAt = c] : c \in Times}

HashInputs == TextInputs \cup RequiredInputs \cup MetaInputs \cup TimeInputs

(***************************************************************************)
(* The relations between two inputs that the properties speak of.          *)
(***************************************************************************)
\* sequences whose i-th element is drawn from sets[i]
Product(sets) ==
    {xs \in [1..Len(sets) -> UNION Range(sets)] : \A i \in 1..Len(sets) : xs[i] \in sets[i]}

\* the payloads that are n with the members of some objects, at any depth,
\* written in another order (an object that repeats a key keeps its order)
RECURSIVE Reorderings(_)
Reorderings(n) ==
    CASE n.t = "obj" ->
           LET kidSets == [i \in 1..Len(n.kids) |-> Reorderings(n.kids[i])]
               perms == IF Cardinality(Range(n.keys)) = Len(n.keys)
                        THEN IndexPermutations(Len(n.keys))
                        ELSE {[i \in 1..Len(n.keys) |-> i]}
           IN {JObj([i \in 1..Len(n.keys) |-> n.keys[p[i]]],
                    [i \in 1..Len(n.keys) |-> ks[p[i]]]) :
                  p \in perms, ks \in Product(kidSets)}
      [] n.t = "arr" ->
           {JArr(ks) : ks \in Product([i \in 1..Len(n.kids) |-> Reorderings(n.kids[i])])}
      [] OTHER -> {n}

IndexOfChar(s, c) ==
    IF \E i \in 1..Len(s) : s[i] = c
    THEN CHOOSE i \in 1..Len(s) : s[i] = c /\ \A j \in 1..(i - 1) : s[j] # c
    ELSE 0

RECURSIVE DigitsValue(_)
DigitsValue(ds) ==
    IF ds = <<>> THEN 0
    ELSE 10 * DigitsValue(SubSeq(ds, 1, Len(ds) - 1)) + (Ord(ds[Len(ds)]) - Ord("0"))

RECURSIVE ReduceDecimal(_, _)
ReduceDecimal(m, e) ==
    IF m = 0 THEN <<0, 0>>
    ELSE IF m % 10 = 0 THEN ReduceDecimal(m \div 10, e + 1)
    ELSE <<m, e>>

\* the number a literal denotes, as mantissa and power of ten in lowest terms
NumValue(lit) ==
    LET e == IndexOfChar(lit, "e")
        mant == IF e = 0 THEN lit ELSE SubSeq(lit, 1, e - 1)
        exp == IF e = 0 THEN 0 ELSE DigitsValue(SubSeq(lit, e + 1, Len(lit)))
        dot == IndexOfChar(mant, ".")
        int == IF dot = 0 THEN mant ELSE SubSeq(mant, 1, dot - 1)
        frac == IF dot = 0 THEN <<>> ELSE SubSeq(mant, dot + 1, Len(mant))
    IN ReduceDecimal(DigitsValue(int \o frac), exp - Len(frac))

\* the payloads that are n with at most one number, at any depth, spelled
\* differently
RECURSIVE Respellings(_)
Respellings(n) ==
    CASE n.t \in {"obj", "arr"} ->
           {n} \cup UNION {{[n EXCEPT !.kids[i] = k] : k \in Respellings(n.kids[i])} :
                              i \in 1..Len(n.kids)}
      [] n.t = "num" -> {JNum(lit) : lit \in {l \in NumLits : NumValue(l) = NumValue(n.lit)}}
      [] OTHER -> {n}

\* a text with each CRLF and each lone CR replaced by LF, in one pass
RECURSIVE ToLF(_)
ToLF(s) ==
    IF s = <<>> THEN <<>>
    ELSE IF s[1] = CR
         THEN <<LF>> \o ToLF(IF Len(s) >= 2 /\ s[2] = LF
                             THEN SubSeq(s, 3, Len(s)) ELSE Tail(s))
    ELSE <<s[1]>> \o ToLF(Tail(s))

LFOnly(r) ==
    [r EXCEPT !.Author = ToLF(r.Author), !.SourceType = ToLF(r.SourceType),
              !.Title = ToLF(r.Title), !.Prompt = ToLF(r.Prompt),
              !.Response = ToLF(r.Response), !.PrevHash = ToLF(r.PrevHash)]

FracDigit(c, i) == IF i <= Len(c.frac) THEN c.frac[i] ELSE 0

\* two timestamps denote one instant
SameInstant(c1, c2) ==
    /\ c1.kind = "ts" /\ c2.kind = "ts"
    /\ 24 * c1.day + c1.hour - c1.off = 24 * c2.day + c2.hour - c2.off
    /\ c1.sec = c2.sec
    /\ \A i \in 1..(Len(c1.frac) + Len(c2.frac)) : FracDigit(c1, i) = FracDigit(c2, i)

(***************************************************************************)
(* The hashing functions applied to an input and to a related input.       *)
(***************************************************************************)
NoResult == [digest |-> <<>>, err |-> "none"]

HashInit ==
    /\ record \in HashInputs
    /\ variant = record
    /\ result = NoResult
    /\ resultVariant = NoResult
    /\ op = "init"
    /\ intents = <<>>
    /\ created = <<>>
    /\ ret = NoRet
    /\ call = NoCall
    /\ MigrateIdle
    /\ FilterIdle

HashBoth(name, v) ==
    /\ op = "init"
    /\ variant' = v
    /\ result' = HashIntent(record)
    /\ resultVariant' = HashIntent(v)
    /\ op' = name
    /\ UNCHANGED <<record, storeVars, migVars, filterVars>>

\* HashIntent on two records that differ in the hash field at most
HashOtherHash ==
    \E h \in Hashes : HashBoth("hash", [record EXCEPT !.Hash = h])

\* HashIntent on two records whose metadata differ in key order
HashReordered ==
    /\ record.Meta.kind = "json"
    /\ \E n \in Reorderings(record.Meta.root) :
          HashBoth("reorder", [record EXCEPT !.Meta = RawMeta("json", n)])

\* HashIntent on two records whose metadata differ in the spelling of numbers
HashRespelled ==
    /\ record.Meta.kind = "json"
    /\ \E n \in Respellings(record.Meta.root) :
          HashBoth("respell", [record EXCEPT !.Meta = RawMeta("json", n)])

\* HashIntent on a record and on its LF-only equivalent
HashLFOnly == HashBoth("lf", LFOnly(record))

\* HashIntent on two records whose createdAt denote one instant
HashSameInstant ==
    \E c \in Times :
        /\ SameInstant(record.CreatedAt, c)
        /\ HashBoth("instant", [record EXCEPT !.CreatedAt = c])

HashNext ==
    \/ HashOtherHash
    \/ HashReordered
    \/ HashRespelled
    \/ HashLFOnly
    \/ HashSameInstant

HashSpec == HashInit /\ [][HashNext]_vars

(***************************************************************************)
(* Properties of hashing.                                                  *)
(***************************************************************************)
\* C1: two metadata objects that differ only in the order of their keys, at
\* any nesting depth, canonicalize to the same bytes, and the two records
\* holding them get the same HashIntent digest.
C1_KeyOrderIrrelevant ==
    op = "reorder" =>
        /\ CanonicalizeMeta(record.Meta) = CanonicalizeMeta(variant.Meta)
        /\ record.Meta.root.t = "obj" => CanonicalizeMeta(record.Meta).err = ""
        /\ result = resultVariant

\* a nested object was reordered, the two payloads differ, and both hash
C1_Witness ==
    /\ op = "reorder"
    /\ result.err = ""
    /\ \E i \in 1..Len(record.Meta.root.kids) :
          /\ record.Meta.root.kids[i].t = "obj"
          /\ Len(variant.Meta.root.kids) = Len(record.Meta.root.kids)
          /\ \E j \in 1..Len(variant.Meta.root.kids) :
                /\ variant.Meta.root.kids[j].t = "obj"
                /\ variant.Meta.root.keys[j] = record.Meta.root.keys[i]
                /\ variant.Meta.root.kids[j] # record.Meta.root.kids[i]

\* C2: two records equal except for the spelling of a number of the same
\* value in their metadata get the same HashIntent digest.
C2_NumberSpellingIrrelevant ==
    op = "respell" => result = resultVariant

\* C3: a record with CRLF or CR line endings in its free-text fields hashes
\* to the same digest as its LF-only equivalent.
C3_NewlineStyleIrrelevant ==
    op = "lf" => result = resultVariant

\* a field holding both a CRLF and a lone CR was hashed
C3_Witness ==
    /\ op = "lf"
    /\ result.err = ""
    /\ record.PrevHash = <<CR, LF, CR>>
    /\ variant.PrevHash = <<LF, LF>>

\* C4: two records equal except that their createdAt strings spell one
\* instant with different offsets or fractional digits get the same digest.
C4_InstantSpellingIrrelevant ==
    op = "instant" => result = resultVariant

\* the two timestamps differ in offset, in day and in fractional digits
C4_Witness ==
    /\ op = "instant"
    /\ result.err = ""
    /\ record.CreatedAt.off # variant.CreatedAt.off
    /\ record.CreatedAt.day # variant.CreatedAt.day
    /\ Len(record.CreatedAt.frac) # Len(variant.CreatedAt.frac)
    /\ record.CreatedAt.frac # <<>>

\* C5: two records that differ only in their hash field yield the same
\* HashIntent result, the same digest or the same error.
C5_HashFieldIrrelevant ==
    op = "hash" => result = resultVariant

\* two records with different hash fields were hashed to a digest
C5_Witness ==
    /\ op = "hash"
    /\ record.Hash # variant.Hash
    /\ result.err = ""
    /\ result.digest # <<>>

RequiredText(r) ==
    [id |-> r.ID, created_at |-> TimeText(r.CreatedAt), author |-> r.Author,
     source_type |-> r.SourceType, prompt |-> r.Prompt, response |-> r.Response]
RequiredNames == {"id", "created_at", "author", "source_type", "prompt", "response"}
MissingError(name) ==
    CASE name = "id" -> "id is required for hashing"
      [] name = "created_at" -> "created_at is required for hashing"
      [] name = "author" -> "author is required for hashing"
      [] name = "source_type" -> "source_type is required for hashing"
      [] name = "prompt" -> "prompt is required for hashing"
      [] name = "response" -> "response is required for hashing"

\* C6: when a required field is empty HashIntent returns no digest and the
\* missing-field error of a field that is absent; the invalid-timestamp
\* error is returned only when all six required fields are present.
C6_MissingFieldReported ==
    op # "init" =>
        /\ (\E f \in RequiredNames : RequiredText(record)[f] = <<>>) =>
              /\ result.digest = <<>>
              /\ \E f \in RequiredNames :
                    RequiredText(record)[f] = <<>> /\ result.err = MissingError(f)
        /\ result.err = "created_at must be RFC3339" =>
              \A f \in RequiredNames : RequiredText(record)[f] # <<>>

(***************************************************************************)
(* The store as a state machine.                                           *)
(***************************************************************************)
StoreIDs == {<<"x">>, <<"y">>, <<"x", "y">>}
StoreTimes == {Timestamp(9, 10, 0, <<>>, TRUE, 0), Timestamp(9, 10, 0, <<5>>, TRUE, 0)}
StoreMeta == RawMeta("json", JObj(<<<<"a">>>>, <<JStr(<<"v">>)>>))
StoreRecord(id, createdAt, title, meta, prevHash, hash) ==
    IntentRecord(id, createdAt, <<"a">>, <<"c">>, title, <<"p">>, <<"r">>,
                 meta, prevHash, hash)

StoreHashes == {<<"h">>, <<"y">>}

\* records of every id: every timestamp and hash without optional fields,
\* and one with title, metadata and prevHash present
StoreInputs ==
    {StoreRecord(id, createdAt, <<>>, NoMeta, <<>>, hash) :
        id \in StoreIDs, createdAt \in StoreTimes, hash \in StoreHashes}
    \cup {StoreRecord(id, GoodTime, <<"a">>, StoreMeta, <<"h">>, <<"h">>) :
            id \in StoreIDs}
Limits == {-1, 0, 1, 2, DefaultLimit}

Init ==
    /\ intents = <<>>
    /\ created = <<>>
    /\ ret = NoRet
    /\ call = NoCall
    /\ MigrateIdle
    /\ FilterIdle
    /\ record = GoodRecord
    /\ variant = GoodRecord
    /\ result = NoResult
    /\ resultVariant = NoResult
    /\ op = "init"

CreateIntent ==
    \E r \in StoreInputs :
        LET done == Insert(intents, r)
        IN /\ done.err = "" => Len(created) < MaxCreates
           /\ intents' = done.rows
           /\ created' = IF done.err = "" THEN Append(created, r) ELSE created
           /\ ret' = Returned(done.err, <<>>)
           /\ call' = Called("CreateIntent", r.ID, 0)
           /\ UNCHANGED <<hashVars, migVars, filterVars>>

GetIntent ==
    \E id \in StoreIDs :
        /\ call' = Called("GetIntent", id, 0)
        /\ IF SelectByID(intents, id) = {}
           THEN ret' = Returned(ErrNoRows, <<>>)
           ELSE \E i \in SelectByID(intents, id) :
                   ret' = Returned("", <<Scan(intents[i])>>)
        /\ UNCHANGED <<intents, created, hashVars, migVars, filterVars>>

GetIntentByHash ==
    \E hash \in StoreHashes :
        /\ call' = Called("GetIntentByHash", hash, 0)
        /\ IF SelectByHash(intents, hash) = {}
           THEN ret' = Returned(ErrNoRows, <<>>)
           ELSE \E i \in SelectByHash(intents, hash) :
                   ret' = Returned("", <<Scan(intents[i])>>)
        /\ UNCHANGED <<intents, created, hashVars, migVars, filterVars>>

ListIntents ==
    \E limit \in Limits, p \in SelectOrdered(intents) :
        /\ call' = Called("ListIntents", <<>>, limit)
        /\ ret' = Returned("",
               [i \in 1..Min(EffectiveLimit(limit), Len(intents)) |-> Scan(intents[p[i]])])
        /\ UNCHANGED <<intents, created, hashVars, migVars, filterVars>>

Next ==
    \/ CreateIntent
    \/ GetIntent
    \/ GetIntentByHash
    \/ ListIntents

Spec == Init /\ [][Next]_vars

(***************************************************************************)
(* Properties of the store.                                                *)
(***************************************************************************)
\* C7: after CreateIntent(r) succeeds for an id not yet stored, GetIntent(r.id)
\* and GetIntentByHash(r.hash) each return a record equal to r in every field.
C7_CreateThenGet ==
    Len(created) > 0 =>
        LET r == created[Len(created)]
        IN /\ call.op = "GetIntent" /\ call.key = r.ID => ret = Returned("", <<r>>)
           /\ call.op = "GetIntentByHash" /\ call.key = r.Hash => ret = Returned("", <<r>>)

StoredIDs == {intents[i].id : i \in 1..Len(intents)}
\* the first of the records cs, in the order created, that has the id
FirstCreated(cs, id) ==
    cs[CHOOSE i \in 1..Len(cs) : cs[i].ID = id /\ \A j \in 1..(i - 1) : cs[j].ID # id]

\* C8: CreateIntent of a stored id fails with the duplicate-id error and
\* leaves the store unchanged; no two stored records share an id, and
\* GetIntent returns the first record stored under the id.
C8_DuplicateIDRefused ==
    [][/\ call'.op = "CreateIntent" /\ call'.key \in StoredIDs =>
              ret'.err = ErrDuplicateID /\ intents' = intents
       /\ \A i, j \in 1..Len(intents') : intents'[i].id = intents'[j].id => i = j
       /\ \A i \in 1..Len(created') :
              /\ SelectByID(intents', created'[i].ID) # {}
              /\ \A k \in SelectByID(intents', created'[i].ID) :
                    Scan(intents'[k]) = FirstCreated(created', created'[i].ID)
       /\ call'.op = "GetIntent" /\ ret'.err = "" =>
              ret'.recs = <<FirstCreated(created', call'.key)>>]_vars

\* a CreateIntent of a stored id was refused while two records are stored
C8_Witness ==
    /\ call.op = "CreateIntent"
    /\ ret.err = ErrDuplicateID
    /\ Len(intents) = 2

\* C9: no operation of the store removes or modifies a stored record.
C9_AppendOnly ==
    [][\A i \in 1..Len(intents) : \E j \in 1..Len(intents') : intents'[j] = intents[i]]_vars

\* every operation has a state in which it acted on a store of two records
C9_Witness ==
    /\ Len(intents) = 2
    /\ Len(created) = 2
    /\ call.op = "ListIntents"
    /\ Len(ret.recs) = 2

\* the instant of c1 is before the instant of c2
InstantLess(c1, c2) ==
    LET t1 == ParseRFC3339(c1)
        t2 == ParseRFC3339(c2)
    IN \/ t1.sec < t2.sec
       \/ /\ t1.sec = t2.sec
          /\ \E i \in 1..NanoDigits :
                /\ t1.nsec[i] < t2.nsec[i]
                /\ \A j \in 1..(i - 1) : t1.nsec[j] = t2.nsec[j]

\* C10: ListIntents(limit) returns min(limit, stored) records, a limit of zero
\* or less counting as 100; no returned record is earlier than one that
\* follows it or than a stored record left out.
C10_ListNewestFirst ==
    call.op = "ListIntents" =>
        /\ Len(ret.recs) =
              Min(IF call.limit <= 0 THEN 100 ELSE call.limit, Len(intents))
        /\ \A i, j \in 1..Len(ret.recs) :
              i < j => ~InstantLess(ret.recs[i].CreatedAt, ret.recs[j].CreatedAt)
        /\ \A i \in 1..Len(ret.recs), k \in 1..Len(intents) :
              Scan(intents[k]) \notin Range(ret.recs) =>
                  ~InstantLess(ret.recs[i].CreatedAt, intents[k].created_at)

(***************************************************************************)
(* The migration runner as a state machine: the migrations directory is    *)
(* chosen at the start, Migrate runs against it any number of times, and   *)
(* between runs a script is broken or repaired.                            *)
(***************************************************************************)
S1 == <<"1", ".", "s", "q", "l">>
S10 == <<"1", "0", ".", "s", "q", "l">>
S2 == <<"2", ".", "s", "q", "l">>

ScriptNames == {S1, S10, S2}

\* a file that is no script, and a directory named like one
OtherEntries == {Entry(<<"1", ".", "t", "x", "t">>, FALSE), Entry(<<"3", ".", "s", "q", "l">>, TRUE)}

Directories ==
    {NoDirectory} \cup
    {Directory(TRUE, es, {}) :
        es \in SUBSET ({Entry(n, FALSE) : n \in ScriptNames} \cup OtherEntries)}

MigrateInit ==
    /\ record = GoodRecord
    /\ variant = GoodRecord
    /\ result = NoResult
    /\ resultVariant = NoResult
    /\ op = "init"
    /\ intents = <<>>
    /\ created = <<>>
    /\ ret = NoRet
    /\ call = NoCall
    /\ FilterIdle
    /\ migrations \in Directories
    /\ db = FreshDatabase
    /\ mig = NoMigrateCall

\* s.Migrate(ctx)
MigrateRun ==
    LET done == Migrate(migrations, db)
    IN /\ db' = done.db
       /\ mig' = MigrateCall("Migrate", done, db,
                             IF mig.err # "" THEN mig.failed ELSE <<>>)
       /\ UNCHANGED <<migrations, hashVars, storeVars, filterVars>>

\* a script of the directory is edited: it fails from now on, or no longer
EditScript ==
    \E name \in listMigrationFiles(migrations).paths :
        /\ migrations' =
              [migrations EXCEPT !.failing =
                  IF name \in @ THEN @ \ {name} ELSE @ \cup {name}]
        /\ mig' = [mig EXCEPT !.op = "EditScript"]
        /\ UNCHANGED <<db, hashVars, storeVars, filterVars>>

MigrateNext ==
    \/ MigrateRun
    \/ EditScript

MigrateSpec == MigrateInit /\ [][MigrateNext]_vars

\* the scripts of the migrations directory
Scripts == {e.name : e \in {x \in migrations.entries : ~x.isDir /\ HasSuffix(x.name, SqlSuffix)}}

\* every script is a row of schema_migrations in the database d
AllRecorded(d) == \A v \in Scripts : v \in Range(d.versions)

\* C11 as stated: a Migrate run on a database in which every migration script
\* is recorded as applied executes no script, adds no bookkeeping row, leaves
\* the database unchanged and succeeds.
C11_MigrateNoOpWhenAllRecorded ==
    (mig.op = "Migrate" /\ AllRecorded(mig.before)) =>
        /\ mig.ran = <<>>
        /\ db.versions = mig.before.versions
        /\ db = mig.before
        /\ mig.err = ""

\* C11: with at least one script in the migrations directory, a Migrate run
\* on a database in which every script is recorded as applied executes no
\* script, adds no bookkeeping row, leaves the database unchanged and
\* succeeds; and a Migrate run that succeeds leaves every script recorded, so
\* that the runs after it are of that kind.
C11_MigrateIdempotent ==
    mig.op = "Migrate" =>
        /\ (Scripts # {} /\ AllRecorded(mig.before)) =>
              /\ mig.ran = <<>>
              /\ db.versions = mig.before.versions
              /\ db = mig.before
              /\ mig.err = ""
        /\ mig.err = "" => (Scripts # {} /\ AllRecorded(db))

C11_Witness ==
    /\ mig.op = "Migrate"
    /\ Scripts = ScriptNames
    /\ AllRecorded(mig.before)
    /\ mig.ran = <<>>
    /\ mig.err = ""
    /\ db = mig.before

\* the scripts that the last Migrate run found not yet applied
Pending == Scripts \ Range(mig.before.versions)

\* all of s but its last element
Front(s) == SubSeq(s, 1, Len(s) - 1)

\* C12: Migrate executes not-yet-applied scripts only, in ascending bytewise
\* order and passing over none; script effects and bookkeeping rows are
\* always the same; a run without error has executed every pending script; a
\* script that fails ends the run with an error, the scripts before it
\* applied and recorded, itself without effect or row, no later script run;
\* and the run after a failed one executes the failed script first.
C12_OrderedAtomicMigrations ==
    /\ db.effects = db.versions
    /\ mig.op = "Migrate" =>
        /\ \A i \in 1..Len(mig.ran) : mig.ran[i] \in Pending
        /\ \A i, j \in 1..Len(mig.ran) : i < j => StringLess(mig.ran[i], mig.ran[j])
        /\ \A v \in Pending :
              (\E i \in 1..Len(mig.ran) : StringLess(v, mig.ran[i])) => v \in Range(mig.ran)
        /\ mig.err = "" => Range(mig.ran) = Pending
        /\ \A i \in 1..Len(mig.ran) :
              mig.ran[i] \in migrations.failing =>
                  /\ i = Len(mig.ran)
                  /\ mig.failed = mig.ran[i]
        /\ mig.failed # <<>> =>
              /\ mig.err # ""
              /\ mig.ran # <<>>
              /\ mig.failed = mig.ran[Len(mig.ran)]
              /\ db.versions = mig.before.versions \o Front(mig.ran)
              /\ db.effects = mig.before.effects \o Front(mig.ran)
              /\ mig.failed \notin Range(db.versions)
              /\ mig.failed \notin Range(db.effects)
        /\ mig.prevFailed # <<>> =>
              /\ mig.ran # <<>>
              /\ mig.ran[1] = mig.prevFailed

C12_Witness ==
    /\ mig.op = "Migrate"
    /\ Scripts = ScriptNames
    /\ mig.before.versions = <<S1>>
    /\ mig.prevFailed = S10
    /\ mig.failed = S10
    /\ mig.ran = <<S10>>
    /\ db.versions = <<S1>>

(***************************************************************************)
(* FilterIntentsByMeta as a state machine: the collection of records and   *)
(* the filter set are drawn at the start from the sets below, and the one  *)
(* step is the call on them.                                               *)
(***************************************************************************)
MaxItems == 2

FilterValues == {<<"v">>, <<"w">>}

\* the filter sets: every map from some of the keys to the values
FilterSets == UNION {[ks -> FilterValues] : ks \in SUBSET MetaKeys}

\* metadata that decodes: absent, null, and objects whose members are
\* strings, numbers and a key written twice
GoodFilterMetas ==
    {NoMeta, RawMeta("json", JNull), RawMeta("json", JObj(<<>>, <<>>)),
     RawMeta("json", JObj(<<<<"a">>>>, <<JStr(<<"v">>)>>)),
     RawMeta("json", JObj(<<<<"a">>>>, <<JStr(<<"w">>)>>)),
     RawMeta("json", JObj(<<<<"a">>>>, <<JNum(<<"1">>)>>)),
     RawMeta("json", JObj(<<<<"b">>>>, <<JStr(<<"v">>)>>)),
     RawMeta("json", JObj(<<<<"b">>, <<"a">>>>, <<JStr(<<"w">>), JStr(<<"v">>)>>)),
     RawMeta("json", JObj(<<<<"a">>, <<"b">>>>, <<JStr(<<"v">>), JNum(<<"1">>)>>)),
     RawMeta("json", JObj(<<<<"a">>, <<"a">>>>, <<JStr(<<"w">>), JStr(<<"v">>)>>))}

\* metadata that does not decode into a map: a text that is no JSON, a value
\* followed by more data, an array and a string
BadFilterMetas ==
    {RawMeta("malformed", JNull),
     RawMeta("trailing", JObj(<<<<"a">>>>, <<JStr(<<"v">>)>>)),
     RawMeta("json", JArr(<<JStr(<<"v">>)>>)),
     RawMeta("json", JStr(<<"v">>))}

FilterMetas == GoodFilterMetas \cup BadFilterMetas

\* the records of a collection carry their position as id
FilterRecord(i, meta) == [GoodRecord EXCEPT !.ID = <<DigitChars[i + 1]>>, !.Meta = meta]

Collections ==
    UNION {{[i \in 1..n |-> FilterRecord(i, ms[i])] : ms \in [1..n -> FilterMetas]} :
              n \in 0..MaxItems}

FilterInit ==
    /\ record = GoodRecord
    /\ variant = GoodRecord
    /\ result = NoResult
    /\ resultVariant = NoResult
    /\ op = "init"
    /\ intents = <<>>
    /\ created = <<>>
    /\ ret = NoRet
    /\ call = NoCall
    /\ MigrateIdle
    /\ items \in Collections
    /\ filters \in FilterSets
    /\ out = NoFiltered

\* FilterIntentsByMeta(items, filters)
FilterCall ==
    /\ out = NoFiltered
    /\ out' = FilterIntentsByMeta(items, filters)
    /\ UNCHANGED <<items, filters, hashVars, storeVars, migVars>>

FilterNext == FilterCall

FilterSpec == FilterInit /\ [][FilterNext]_vars

\* the metadata decodes: it is absent, or one JSON object or null
Decodable(raw) ==
    \/ raw.kind = "empty"
    \/ raw.kind = "json" /\ raw.root.t \in {"obj", "null"}

\* the metadata is an object with a member k (the last one written for k)
HasMember(raw, k) ==
    /\ raw.kind = "json"
    /\ raw.root.t = "obj"
    /\ k \in Range(raw.root.keys)

Member(raw, k) == raw.root.kids[LastIndex(raw.root.keys, k)]

\* the metadata holds the string v for the key k
Holds(raw, k, v) == HasMember(raw, k) /\ Member(raw, k) = JStr(v)

Satisfies(r) == \A k \in DOMAIN filters : Holds(r.Meta, k, filters[k])

\* C13: on records with decodable metadata FilterIntentsByMeta succeeds and
\* returns, in their original order, exactly the records whose metadata holds
\* for each filter key a string equal to the filter value; a record with a
\* non-string value for a filter key is not returned; the empty filter set
\* returns the input; a record without metadata is returned for the empty
\* filter set only.
C13_FilterReturnsMatches ==
    (out # NoFiltered /\ \A i \in 1..Len(items) : Decodable(items[i].Meta)) =>
        /\ out.err = ""
        /\ out.recs = SelectSeq(items, Satisfies)
        /\ \A i \in 1..Len(items), k \in DOMAIN filters :
              (HasMember(items[i].Meta, k) /\ Member(items[i].Meta, k).t # "str")
                  => items[i] \notin Range(out.recs)
        /\ DOMAIN filters = {} => out.recs = items
        /\ \A i \in 1..Len(items) :
              items[i].Meta = NoMeta =>
                  (items[i] \in Range(out.recs) <=> DOMAIN filters = {})

C13_Witness ==
    /\ out.err = ""
    /\ Len(items) = 2
    /\ DOMAIN filters = MetaKeys
    /\ HasMember(items[1].Meta, <<"b">>)
    /\ Member(items[1].Meta, <<"b">>).t = "num"
    /\ Holds(items[1].Meta, <<"a">>, filters[<<"a">>])
    /\ out.recs = <<items[2]>>

\* C14 as stated: for every filter set, a record whose metadata cannot be
\* decoded makes the call return an error and no records.
C14_UndecodableFailsCall ==
    (out # NoFiltered /\ \E i \in 1..Len(items) : ~Decodable(items[i].Meta)) =>
        /\ out.err # ""
        /\ out.recs = <<>>

\* C14: for every filter set that is not empty, a record whose metadata
\* cannot be decoded, at any position, makes the call return an error and no
\* records; for the empty filter set the call returns the input, that record
\* included, without error.
C14_UndecodableFailsFilteredCall ==
    (out # NoFiltered /\ \E i \in 1..Len(items) : ~Decodable(items[i].Meta)) =>
        IF DOMAIN filters # {}
        THEN out.err # "" /\ out.recs = <<>>
        ELSE out.err = "" /\ out.recs = items

C14_Witness ==
    /\ out # NoFiltered
    /\ Len(items) = 2
    /\ DOMAIN filters # {}
    /\ Satisfies(items[1])
    /\ ~Decodable(items[2].Meta)
    /\ out.err # ""
    /\ out.recs = <<>>

====
